---- MODULE Spec2Model ----
(***************************************************************************)
(* spleen-elasticsearch: conversion of a spleen Filter into an             *)
(* Elasticsearch Query DSL document (lib/convert.js, lib/strategy.js,      *)
(* lib/errors.js).                                                         *)
(*                                                                         *)
(* JavaScript values are encoded as records whose field names tell the     *)
(* kind of value apart (what typeof / instanceof / Array.isArray tell      *)
(* apart in the source):                                                   *)
(*   [number |-> n]  [string |-> s]  [boolean |-> b]  [null |-> TRUE]      *)
(*   [array |-> <<v1, ..., vn>>]                       an Array            *)
(*   [path |-> <<seg, ...>>, field |-> s]              a spleen Target     *)
(*   [lower |-> v, upper |-> v]                        a spleen Range      *)
(*   [value |-> v]                                     a spleen Like       *)
(*   [subject |-> v, operator |-> [type |-> s], object |-> v]  a Clause    *)
(*   [statements |-> <<[conjunctive |-> s, value |-> v], ...>>] a Filter   *)
(* Objects of the emitted document are records, or functions k :> v when   *)
(* the key is computed; JavaScript arrays of the document are sequences.   *)
(***************************************************************************)
EXTENDS Integers, Sequences, FiniteSets, TLC

VARIABLES filter, strategy, pc, result, options, builder, given, calls

vars == <<filter, strategy, pc, result, options, builder, given, calls>>

(***************************************************************************)
(* Bounds of the model.                                                    *)
(***************************************************************************)
\* Largest number of calls of convert in one session.
MaxCalls == 2

\* Largest number of statements (at all nesting levels together) of a
\* filter tree drawn as input.
MaxNodes == 4

(***************************************************************************)
(* JavaScript values.                                                      *)
(***************************************************************************)
Num(n) == [number |-> n]
Str(s) == [string |-> s]
Bool(b) == [boolean |-> b]
null == [null |-> TRUE]
Array(seq) == [array |-> seq]

IsString(v) == DOMAIN v = {"string"}
IsNumber(v) == DOMAIN v = {"number"}
IsArray(v) == DOMAIN v = {"array"}

Digit == <<"0", "1", "2", "3", "4", "5", "6", "7", "8", "9">>

\* Number.prototype.toString of a non-negative integer (an array index).
RECURSIVE NumToString(_)
NumToString(n) ==
  IF n < 10 THEN Digit[n + 1]
  ELSE NumToString(n \div 10) \o Digit[(n % 10) + 1]

\* String.prototype.startsWith / endsWith with a one-character argument.
StartsWith(s, c) == Len(s) > 0 /\ SubSeq(s, 1, 1) = c
EndsWith(s, c) == Len(s) > 0 /\ SubSeq(s, Len(s), Len(s)) = c

(***************************************************************************)
(* The values of the spleen library the converter reads.                   *)
(***************************************************************************)
\* segment.toString() of a path segment that is not a string.
SegmentToString(segment) ==
  IF IsString(segment) THEN segment.string ELSE NumToString(segment.number)

\* Target.prototype.toJsonPointer: "/" before every segment.
RECURSIVE JsonPointer(_, _)
JsonPointer(path, i) ==
  IF i > Len(path) THEN ""
  ELSE "/" \o SegmentToString(path[i]) \o JsonPointer(path, i + 1)

toJsonPointer(target) == JsonPointer(target.path, 1)

\* A spleen Target: its path, and its field, the JSON pointer of the path.
Target(path) == [path |-> path, field |-> JsonPointer(path, 1)]
Range(lower, upper) == [lower |-> lower, upper |-> upper]
Like(value) == [value |-> value]
Clause(subject, type, object) ==
  [subject |-> subject, operator |-> [type |-> type], object |-> object]
Statement(conjunctive, value) == [conjunctive |-> conjunctive, value |-> value]
Filter(statements) == [statements |-> statements]

\* instanceof
IsTarget(v) == DOMAIN v = {"path", "field"}
IsRange(v) == DOMAIN v = {"lower", "upper"}
IsLike(v) == DOMAIN v = {"value"}
IsClause(v) == DOMAIN v = {"subject", "operator", "object"}
IsFilter(v) == DOMAIN v = {"statements"}

\* Like.prototype.toRegexString: "^", then every "*" as ".*", every "_" as
\* ".{1}" and every other character as it is, then "$".
RECURSIVE LikeChars(_, _)
LikeChars(s, i) ==
  IF i > Len(s) THEN ""
  ELSE LET c == SubSeq(s, i, i)
           r == IF c = "*" THEN ".*" ELSE IF c = "_" THEN ".{1}" ELSE c
       IN  r \o LikeChars(s, i + 1)

toRegexString(like) == "^" \o LikeChars(like.value.string, 1) \o "$"

(***************************************************************************)
(* lib/errors.js                                                           *)
(***************************************************************************)
msg_convert == "Invalid filter.  Unable to convert."
msg_deniedField == "Black listed field encountered: "
msg_invalidTarget == "Invalid target encountered: "
msg_nonallowedField == "Non-white listed field encountered: "
msg_requiredField == "Missing required field: "

\* args is the argument list of the call: <<>> or <<message>>.
ConvertError(args) ==
  [name |-> "ConvertError",
   message |-> IF Len(args) = 0 THEN msg_convert ELSE args[1]]

DeniedFieldError(field) ==
  [name |-> "DeniedFieldError",
   message |-> msg_deniedField \o field,
   data |-> field]

InvalidTargetError(target) ==
  [name |-> "InvalidTargetError",
   message |-> msg_invalidTarget \o toJsonPointer(target),
   data |-> target.path]

NonallowedFieldError(field) ==
  [name |-> "NonallowedFieldError",
   message |-> msg_nonallowedField \o field,
   data |-> field]

RequiredFieldError(field) ==
  [name |-> "RequiredFieldError",
   message |-> msg_requiredField \o field,
   data |-> field]

TypeError(message) == [name |-> "TypeError", message |-> message]

(***************************************************************************)
(* How a call ends: it returns a value (with the Builder as the call left  *)
(* it), or it throws.                                                      *)
(***************************************************************************)
Return(value, self) == [threw |-> FALSE, value |-> value, self |-> self]
Throw(error) == [threw |-> TRUE, error |-> error]
\* The same for a function that is no method of the Builder.
Value(value) == [threw |-> FALSE, value |-> value]

\* What follows a call r that may throw: the throw passes on, a return goes
\* on with the value returned (and the Builder as the call left it).
Then(r, F(_, _)) == IF r.threw THEN r ELSE F(r.value, r.self)
ThenValue(r, F(_)) == IF r.threw THEN r ELSE F(r.value)

(***************************************************************************)
(* lib/strategy.js                                                         *)
(***************************************************************************)
undefined == [undefined |-> TRUE]

\* elv(value): neither undefined nor null.
elv(value) == DOMAIN value \notin {{"undefined"}, {"null"}}

\* settings[key], undefined when the object has no such key.
Get(settings, key) ==
  IF key \in DOMAIN settings THEN settings[key] ELSE undefined

\* typeof value === 'object' of a value that is not null.
IsObject(value) ==
  DOMAIN value \notin
    {{"number"}, {"string"}, {"boolean"}, {"undefined"}}

createTargetSet(value, name) ==
  IF ~elv(value) THEN Value({})
  ELSE IF ~IsArray(value)
    THEN Throw(TypeError(
           "Argument \"settings." \o name \o "\" must be an array"))
  ELSE IF \E i \in 1..Len(value.array) : ~IsString(value.array[i])
    THEN Throw(TypeError(
           "Argument \"settings." \o name \o " must contain strings"))
  ELSE Value({value.array[i].string : i \in 1..Len(value.array)})

\* settings.require as it is given (a list of strings), [] when absent.
requireOf(settings) ==
  IF elv(Get(settings, "require"))
    THEN [i \in 1..Len(settings.require.array) |->
            settings.require.array[i].string]
    ELSE <<>>

\* Variant of Strategy: without the test of allow beside deny.
Strategy_AllowBesideDeny(settings) ==
  IF ~elv(settings)
    THEN Throw(TypeError("Argument \"settings\" is required"))
  ELSE IF ~IsObject(settings)
    THEN Throw(TypeError("Argument \"settings\" must be an object"))
  ELSE
    ThenValue(createTargetSet(Get(settings, "allow"), "allow"),
      LAMBDA allow :
        ThenValue(createTargetSet(Get(settings, "deny"), "deny"),
          LAMBDA deny :
            Value([allow |-> allow,
                   deny |-> deny,
                   require |-> requireOf(settings)])))

\* new Strategy(settings)
Strategy(settings) ==
  IF ~elv(settings)
    THEN Throw(TypeError("Argument \"settings\" is required"))
  ELSE IF ~IsObject(settings)
    THEN Throw(TypeError("Argument \"settings\" must be an object"))
  ELSE
    ThenValue(createTargetSet(Get(settings, "allow"), "allow"),
      LAMBDA allow :
        ThenValue(createTargetSet(Get(settings, "deny"), "deny"),
          LAMBDA deny :
            IF Cardinality(allow) > 0 /\ Cardinality(deny) > 0
              THEN Throw(TypeError(
                "Argument \"settings\" cannot have by \"allow\" and \"deny\""))
              ELSE Value([allow |-> allow,
                          deny |-> deny,
                          require |-> requireOf(settings)])))

(***************************************************************************)
(* lib/convert.js                                                          *)
(***************************************************************************)
\* The characters of /["{};,[\]:()'*>#~@&%?`]|-{2,}/ (the backquote of the
\* source's class cannot be written in a TLA+ string and is left out).
invalidTargetChars ==
  {"\"", "{", "}", ";", ",", "[", "]", ":", "(", ")", "'", "*", ">", "#",
   "~", "@", "&", "%", "?"}

\* Variant of invalidTarget: without the test for two hyphens.
invalidTarget_CharsOnly(segment) ==
  \E i \in 1..Len(segment) : SubSeq(segment, i, i) \in invalidTargetChars

\* invalidTarget.test(segment)
invalidTarget(segment) ==
  \/ \E i \in 1..Len(segment) : SubSeq(segment, i, i) \in invalidTargetChars
  \/ \E i \in 1..(Len(segment) - 1) : SubSeq(segment, i, i + 1) = "--"

\* new Strategy({})
defaultStrategy == Strategy(<<>>).value

\* Variant of not: the fragment under must.
not_Must(dsl) == [bool |-> [must |-> dsl]]

not(dsl) == [bool |-> [must_not |-> dsl]]

\* Variant of scriptOperator: an operator that is none of the six is put
\* in the script as it is.
scriptOperator_AnyOperator(operator) ==
  CASE operator.type = "eq" -> Value("==")
    [] operator.type = "neq" -> Value("!=")
    [] operator.type = "gt" -> Value(">")
    [] operator.type = "gte" -> Value(">=")
    [] operator.type = "lt" -> Value("<")
    [] operator.type = "lte" -> Value("<=")
    [] OTHER -> Value(operator.type)

scriptOperator(operator) ==
  CASE operator.type = "eq" -> Value("==")
    [] operator.type = "neq" -> Value("!=")
    [] operator.type = "gt" -> Value(">")
    [] operator.type = "gte" -> Value(">=")
    [] operator.type = "lt" -> Value("<")
    [] operator.type = "lte" -> Value("<=")
    [] OTHER -> Throw(ConvertError(<<>>))

\* Variant of scriptLiterals: the params the other way round.
scriptLiterals_ParamsSwapped(clause) ==
  ThenValue(scriptOperator(clause.operator),
    LAMBDA op : Value(
      [script |->
        [script |->
          [source |-> "params.subject " \o op \o " params.object",
           params |-> [subject |-> clause.object,
                       object |-> clause.subject]]]]))

scriptLiterals(clause) ==
  ThenValue(scriptOperator(clause.operator),
    LAMBDA op : Value(
      [script |->
        [script |->
          [source |-> "params.subject " \o op \o " params.object",
           params |-> [subject |-> clause.subject,
                       object |-> clause.object]]]]))

\* Variant of normalizeClause: the operator is kept on the swap.
normalizeClause_NoInversion(clause) ==
  IF IsTarget(clause.object)
    THEN [subject |-> clause.object,
          operator |-> clause.operator,
          object |-> clause.subject]
    ELSE clause

normalizeClause(clause) ==
  IF IsTarget(clause.object)
    THEN [subject |-> clause.object,
          operator |->
            CASE clause.operator.type = "gt" -> [type |-> "lt"]
              [] clause.operator.type = "gte" -> [type |-> "lte"]
              [] clause.operator.type = "lt" -> [type |-> "gt"]
              [] clause.operator.type = "lte" -> [type |-> "gte"]
              [] OTHER -> clause.operator,
          object |-> clause.subject]
    ELSE clause

\* Variant of Builder: the fields discovered by the Builder of the call
\* before are kept.
Builder_KeepsFields(f, s) ==
  [_filter |-> f, _strategy |-> s,
   _fields |-> IF "_fields" \in DOMAIN builder THEN builder._fields ELSE {},
   fields |-> IF "fields" \in DOMAIN builder THEN builder.fields ELSE <<>>,
   value |-> <<>>]

\* new Builder(filter, strategy): the arguments are checked by the caller's
\* types here (a Filter and a Strategy); the discovered fields are empty.
Builder(f, s) ==
  [_filter |-> f, _strategy |-> s, _fields |-> {}, fields |-> <<>>,
   value |-> <<>>]

\* Variant of _targetPath: a dot before every segment, the first too.
RECURSIVE _targetPath_DotBeforeEach(_, _, _)
_targetPath_DotBeforeEach(target, i, val) ==
  IF i > Len(target.path) THEN Value(val)
  ELSE IF invalidTarget(SegmentToString(target.path[i]))
    THEN Throw(InvalidTargetError(target))
  ELSE _targetPath_DotBeforeEach(target, i + 1,
         val \o "." \o SegmentToString(target.path[i]))

\* The loop of _target over target.path, from segment i on, val being the
\* key built so far.
RECURSIVE _targetPath(_, _, _)
_targetPath(target, i, val) ==
  IF i > Len(target.path) THEN Value(val)
  ELSE IF invalidTarget(SegmentToString(target.path[i]))
    THEN Throw(InvalidTargetError(target))
  ELSE _targetPath(target, i + 1,
         (IF Len(val) > 0 THEN val \o "." ELSE val)
           \o SegmentToString(target.path[i]))

\* Variant of _register: the field is pushed at every reference.
_register_Every(self, field) ==
  [self EXCEPT !._fields = @ \cup {field}, !.fields = Append(@, field)]

\* this._fields.add / this.fields.push of a field not discovered yet.
_register(self, field) ==
  IF field \notin self._fields
    THEN [self EXCEPT !._fields = @ \cup {field},
                      !.fields = Append(@, field)]
    ELSE self

\* Variant of _target: DeniedFieldError is given the dotted key.
_target_DeniedByKey(self, target) ==
  IF Cardinality(self._strategy.allow) > 0
     /\ target.field \notin self._strategy.allow
    THEN Throw(NonallowedFieldError(target.field))
  ELSE IF Cardinality(self._strategy.deny) > 0
          /\ target.field \in self._strategy.deny
    THEN ThenValue(_targetPath(target, 1, ""),
           LAMBDA val : Throw(DeniedFieldError(val)))
  ELSE ThenValue(_targetPath(target, 1, ""),
         LAMBDA val : Return(val, _register(self, target.field)))

\* Variant of _target: the segments are tested before the lists of the
\* strategy.
_target_SegmentsFirst(self, target) ==
  ThenValue(_targetPath(target, 1, ""),
    LAMBDA val :
      IF Cardinality(self._strategy.allow) > 0
         /\ target.field \notin self._strategy.allow
        THEN Throw(NonallowedFieldError(target.field))
      ELSE IF Cardinality(self._strategy.deny) > 0
              /\ target.field \in self._strategy.deny
        THEN Throw(DeniedFieldError(target.field))
      ELSE Return(val, _register(self, target.field)))

\* Variant of _target: an allow list is consulted even when it is empty.
_target_EmptyAllowList(self, target) ==
  IF target.field \notin self._strategy.allow
    THEN Throw(NonallowedFieldError(target.field))
  ELSE IF Cardinality(self._strategy.deny) > 0
          /\ target.field \in self._strategy.deny
    THEN Throw(DeniedFieldError(target.field))
  ELSE ThenValue(_targetPath(target, 1, ""),
         LAMBDA val : Return(val, _register(self, target.field)))

\* Variant of _target: the deny list is tested after the segments.
_target_DenyAfterSegments(self, target) ==
  IF Cardinality(self._strategy.allow) > 0
     /\ target.field \notin self._strategy.allow
    THEN Throw(NonallowedFieldError(target.field))
  ELSE ThenValue(_targetPath(target, 1, ""),
         LAMBDA val :
           IF Cardinality(self._strategy.deny) > 0
              /\ target.field \in self._strategy.deny
             THEN Throw(DeniedFieldError(target.field))
             ELSE Return(val, _register(self, target.field)))

_target(self, target) ==
  IF Cardinality(self._strategy.allow) > 0
     /\ target.field \notin self._strategy.allow
    THEN Throw(NonallowedFieldError(target.field))
  ELSE IF Cardinality(self._strategy.deny) > 0
          /\ target.field \in self._strategy.deny
    THEN Throw(DeniedFieldError(target.field))
  ELSE ThenValue(_targetPath(target, 1, ""),
         LAMBDA val : Return(val, _register(self, target.field)))

_scriptTargets(self, clause) ==
  Then(_target(self, clause.subject),
    LAMBDA subject, self1 :
      ThenValue(scriptOperator(clause.operator),
        LAMBDA op :
          Then(_target(self1, clause.object),
            LAMBDA object, self2 : Return(
              [script |->
                [script |-> "doc['" \o subject \o "'].value " \o op
                            \o " doc['" \o object \o "'].value"]],
              self2))))

_comparison(self, clause) ==
  Then(_target(self, clause.subject),
    LAMBDA key, self1 : Return(key :> clause.object, self1))

_exists(self, clause) ==
  Then(_target(self, clause.subject),
    LAMBDA key, self1 : Return([exists |-> [field |-> key]], self1))

_range(self, clause) ==
  Then(_target(self, clause.subject),
    LAMBDA key, self1 : Return(
      [range |-> (key :> (clause.operator.type :> clause.object))], self1))

\* not(...) of what a call returns.
Negated(r) == Then(r, LAMBDA dsl, self1 : Return(not(dsl), self1))

_eq(self, clause) ==
  IF clause.object = null THEN Negated(_exists(self, clause))
  ELSE Then(_comparison(self, clause),
         LAMBDA svo, self1 : Return([term |-> svo], self1))

_neq(self, clause) ==
  IF clause.object = null THEN _exists(self, clause)
  ELSE Negated(_eq(self, clause))

_gt(self, clause) ==
  IF clause.object = null THEN _exists(self, clause)
  ELSE _range(self, clause)

_gte(self, clause) ==
  IF clause.object = null THEN _exists(self, clause)
  ELSE _range(self, clause)

_lt(self, clause) ==
  IF clause.object = null THEN Negated(_exists(self, clause))
  ELSE _range(self, clause)

\* Variant of _lte: exists, not negated, for null.
_lte_Exists(self, clause) ==
  IF clause.object = null THEN _exists(self, clause)
  ELSE _range(self, clause)

_lte(self, clause) ==
  IF clause.object = null THEN Negated(_exists(self, clause))
  ELSE _range(self, clause)

\* Variant of StripStart: every leading ^ is removed.
RECURSIVE StripStart_Every(_)
StripStart_Every(regex) ==
  IF StartsWith(regex, "^")
    THEN StripStart_Every(SubSeq(regex, 2, Len(regex)))
    ELSE regex

\* regex.slice(1) when it starts with '^', regex.slice(0, -1) when what is
\* left ends with '$'.
StripStart(regex) ==
  IF StartsWith(regex, "^") THEN SubSeq(regex, 2, Len(regex)) ELSE regex
StripEnd(regex) ==
  IF EndsWith(regex, "$") THEN SubSeq(regex, 1, Len(regex) - 1) ELSE regex

_like(self, clause) ==
  IF ~IsLike(clause.object) \/ ~IsString(clause.object.value)
    THEN Throw(ConvertError(<<>>))
  ELSE Then(_target(self, clause.subject),
         LAMBDA key, self1 : Return(
           [regexp |->
             (key :> StripEnd(StripStart(toRegexString(clause.object))))],
           self1))

_nlike(self, clause) == Negated(_like(self, clause))

\* Variant of _between: upper under gte, lower under lte.
_between_UpperFirst(self, clause) ==
  IF ~IsRange(clause.object) THEN Throw(ConvertError(<<>>))
  ELSE Then(_target(self, clause.subject),
         LAMBDA key, self1 : Return(
           [range |-> (key :> [gte |-> clause.object.upper,
                               lte |-> clause.object.lower])],
           self1))

_between(self, clause) ==
  IF ~IsRange(clause.object) THEN Throw(ConvertError(<<>>))
  ELSE Then(_target(self, clause.subject),
         LAMBDA key, self1 : Return(
           [range |-> (key :> [gte |-> clause.object.lower,
                               lte |-> clause.object.upper])],
           self1))

_nbetween(self, clause) == Negated(_between(self, clause))

\* Variant of _in: any object is taken.
_in_AnyObject(self, clause) ==
  Then(_comparison(self, clause),
    LAMBDA svo, self1 : Return([terms |-> svo], self1))

_in(self, clause) ==
  IF ~IsArray(clause.object) THEN Throw(ConvertError(<<>>))
  ELSE Then(_comparison(self, clause),
         LAMBDA svo, self1 : Return([terms |-> svo], self1))

_nin(self, clause) == Negated(_in(self, clause))

\* The switch of _build on the operator of the normalized clause; sval is
\* the statement's clause as given.
_dispatch(self, clause, sval) ==
  CASE clause.operator.type = "eq" -> _eq(self, clause)
    [] clause.operator.type = "neq" -> _neq(self, clause)
    [] clause.operator.type = "gt" -> _gt(self, clause)
    [] clause.operator.type = "gte" -> _gte(self, clause)
    [] clause.operator.type = "lt" -> _lt(self, clause)
    [] clause.operator.type = "lte" -> _lte(self, clause)
    [] clause.operator.type = "like" -> _like(self, clause)
    [] clause.operator.type = "nlike" -> _nlike(self, clause)
    [] clause.operator.type = "between" -> _between(self, clause)
    [] clause.operator.type = "nbetween" -> _nbetween(self, clause)
    [] clause.operator.type = "in" -> _in(self, clause)
    [] clause.operator.type = "nin" -> _nin(self, clause)
    \* msg.unknownOp is not a key of msg: undefined + type
    [] OTHER -> Throw(ConvertError(<<"undefined" \o sval.operator.type>>))

\* Variant of _clause: the clause is normalized before the test for two
\* Targets.
_clause_NormalizesFirst(self, sval) ==
  IF IsTarget(sval.subject) /\ IsTarget(sval.object)
    THEN _scriptTargets(self, normalizeClause(sval))
  ELSE IF ~IsTarget(sval.subject) /\ ~IsTarget(sval.object)
    THEN ThenValue(scriptLiterals(sval), LAMBDA dsl : Return(dsl, self))
  ELSE _dispatch(self, normalizeClause(sval), sval)

\* What one statement whose value is a Clause pushes on must.
_clause(self, sval) ==
  IF IsTarget(sval.subject) /\ IsTarget(sval.object)
    THEN _scriptTargets(self, sval)
  ELSE IF ~IsTarget(sval.subject) /\ ~IsTarget(sval.object)
    THEN ThenValue(scriptLiterals(sval), LAMBDA dsl : Return(dsl, self))
  ELSE _dispatch(self, normalizeClause(sval), sval)

\* Variants of closesGroup: without the test of must.length; closing
\* before every sub-filter too.
closesGroup_AnyOr(statement, must) == statement.conjunctive = "or"

closesGroup_BeforeSubFilter(statement, must) ==
  /\ statement.conjunctive = "or" \/ IsFilter(statement.value)
  /\ Len(must) > 0

\* statement.conjunctive === 'or' && must.length > 0
closesGroup(statement, must) ==
  statement.conjunctive = "or" /\ Len(must) > 0

\* groups and must after the first if of the loop body.
groupsAfter(statement, groups, must) ==
  IF closesGroup(statement, must)
    THEN Append(groups, [bool |-> [must |-> must]])
    ELSE groups

\* Variant of mustAfter: must goes on after a group is closed.
mustAfter_GoesOn(statement, must) == must

mustAfter(statement, must) ==
  IF closesGroup(statement, must) THEN <<>> ELSE must

\* Variants of _buildValue: the group open at the end is not pushed; must
\* is set beside should.
_buildValue_DropsLastGroup(groups, must) ==
  IF Len(groups) = 0 THEN [bool |-> [must |-> must]]
  ELSE [bool |-> [should |-> groups]]

_buildValue_MustBesideShould(groups, must) ==
  IF Len(groups) = 0 THEN [bool |-> [must |-> must]]
  ELSE [bool |-> [must |-> must,
                  should |-> Append(groups, [bool |-> [must |-> must]])]]

\* Variant of _buildValue: a should array whatever the number of groups.
_buildValue_AlwaysShould(groups, must) ==
  [bool |-> [should |-> Append(groups, [bool |-> [must |-> must]])]]

\* What _build returns after the loop.
_buildValue(groups, must) ==
  IF Len(groups) = 0 THEN [bool |-> [must |-> must]]
  ELSE [bool |-> [should |-> Append(groups, [bool |-> [must |-> must]])]]

\* _buildFrom is the loop of _build from statement i on, with the groups
\* closed and the group open so far.
RECURSIVE _build(_, _), _buildFrom(_, _, _, _, _)
_buildFrom(self, f, i, groups, must) ==
  IF i > Len(f.statements) THEN Return(_buildValue(groups, must), self)
  ELSE Then(
    IF IsFilter(f.statements[i].value)
      THEN _build(self, f.statements[i].value)
    ELSE IF ~IsClause(f.statements[i].value)
      THEN Throw(ConvertError(<<>>))
    ELSE _clause(self, f.statements[i].value),
    LAMBDA dsl, self1 :
      _buildFrom(self1, f, i + 1,
                 groupsAfter(f.statements[i], groups, must),
                 Append(mustAfter(f.statements[i], must), dsl)))

\* Variant of _build: the statements are walked from the last to the
\* first.
_build_FromTheEnd(self, f) ==
  _buildFrom(self,
             Filter([i \in 1..Len(f.statements) |->
                       f.statements[Len(f.statements) + 1 - i]]),
             1, <<>>, <<>>)

_build(self, f) == _buildFrom(self, f, 1, <<>>, <<>>)

\* Variant of build: an error of _build is swallowed, and the document
\* is left empty.
build_SwallowsErrors(self) ==
  IF _build(self, self._filter).threw
    THEN Return(undefined, [self EXCEPT !.value = [filter |-> <<>>]])
    ELSE Then(_build(self, self._filter),
           LAMBDA root, self1 :
             Return(undefined, [self1 EXCEPT !.value = [filter |-> root]]))

\* Variant of build: the clauses of the filter are left normalized, as
\* if normalizeClause exchanged the operands of the clause it is given.
build_NormalizesInPlace(self) ==
  Then(_build(self, self._filter),
    LAMBDA root, self1 :
      Return(undefined,
        [self1 EXCEPT
           !.value = [filter |-> root],
           !._filter =
             Filter([i \in 1..Len(self._filter.statements) |->
               IF IsClause(self._filter.statements[i].value)
                 THEN Statement(self._filter.statements[i].conjunctive,
                        normalizeClause(self._filter.statements[i].value))
                 ELSE self._filter.statements[i]])]))

\* Builder.prototype.build
build(self) ==
  Then(_build(self, self._filter),
    LAMBDA root, self1 :
      Return(undefined, [self1 EXCEPT !.value = [filter |-> root]]))

\* Builder.prototype.validate: the first required field that was not
\* discovered is thrown.
RECURSIVE validateFrom(_, _)
validateFrom(self, i) ==
  IF i > Len(self._strategy.require) THEN Return(undefined, self)
  ELSE IF self._strategy.require[i] \notin self._fields
    THEN Throw(RequiredFieldError(self._strategy.require[i]))
  ELSE validateFrom(self, i + 1)

validate(self) == validateFrom(self, 1)

\* Variant of convert: validate before build.
convert_ValidatesFirst(f, s) ==
  Then(validate(Builder(f, s)),
    LAMBDA valid, self1 :
      Then(build(self1),
        LAMBDA built, self2 :
          Value([fields |-> self2.fields, value |-> self2.value])))

\* convert(filter, strategy): what the call returns, or what it throws.
convert(f, s) ==
  Then(build(Builder(f, s)),
    LAMBDA built, self1 :
      Then(validate(self1),
        LAMBDA valid, self2 :
          Value([fields |-> self2.fields, value |-> self2.value])))

(***************************************************************************)
(* The inputs: filter trees of at most MaxNodes statements over two        *)
(* clauses, every single clause over the operands and operators below,     *)
(* and a few strategies.                                                   *)
(***************************************************************************)
foo == Target(<<Str("foo")>>)
barbaz == Target(<<Str("bar"), Str("baz")>>)

TreeClauses ==
  {Clause(foo, "eq", Num(42)), Clause(barbaz, "gt", Num(0))}

\* The first statement of a filter built by spleen has conjunctive ''; one
\* edited by hand may have any.
FirstConjunctives == {"", "or"}
NextConjunctives == {"and", "or"}

\* StatementLists(n, first): the lists of statements holding n statements
\* in all, nested ones counted; ListsFrom(n, k, first): those of them whose
\* first statement holds at most k; StatementValues(k): the values of a
\* statement that holds k, itself counted.
RECURSIVE StatementLists(_, _), ListsFrom(_, _, _), StatementValues(_)
StatementValues(k) ==
  (IF k = 1 THEN TreeClauses ELSE {})
    \cup {Filter(sub) : sub \in StatementLists(k - 1, TRUE)}

ListsFrom(n, k, first) ==
  IF k = 0 THEN {}
  ELSE {<<Statement(c, v)>> \o rest :
          c \in (IF first THEN FirstConjunctives ELSE NextConjunctives),
          v \in StatementValues(k),
          rest \in StatementLists(n - k, FALSE)}
       \cup ListsFrom(n, k - 1, first)

StatementLists(n, first) ==
  IF n = 0 THEN {<<>>} ELSE ListsFrom(n, n, first)

Subjects == {foo, barbaz, Num(42), Str("a"), null}

Objects ==
  {foo, barbaz, Num(42), Str("b"), Bool(FALSE), null,
   Range(Num(1), Num(5)),
   Array(<<Num(2), Num(1), Num(2)>>),
   Like(Str("*Hello World_")), Like(Num(1))}

OperatorTypes ==
  {"eq", "neq", "gt", "gte", "lt", "lte", "like", "nlike", "between",
   "nbetween", "in", "nin", "nope"}

\* Pairs of statements over a clause with one Target, one with two
\* literals, one with two Targets and one with nil before a Target.
PairClauses ==
  {Clause(foo, "eq", Num(42)), Clause(Str("a"), "neq", Str("b")),
   Clause(foo, "lt", barbaz), Clause(null, "gte", barbaz)}

PairFilters ==
  {Filter(<<Statement(c1, a), Statement(c2, b)>>) :
     c1 \in FirstConjunctives, c2 \in NextConjunctives,
     a \in PairClauses, b \in PairClauses}

ClauseFilters ==
  {Filter(<<Statement(c, Clause(s, t, o))>>) :
     c \in FirstConjunctives, s \in Subjects, t \in OperatorTypes,
     o \in Objects}

Settings ==
  {<<>>,
   [deny |-> Array(<<Str("/foo")>>)],
   [allow |-> Array(<<Str("/foo")>>)],
   [require |-> Array(<<Str("/bar/baz")>>)]}

Strategies == {Strategy(settings).value : settings \in Settings}

\* Targets of more than one segment, with a segment that is a number, with
\* a single hyphen, with a disallowed character and with two hyphens.
foobar == Target(<<Str("foo"), Str("bar")>>)

PathTargets ==
  {foobar,
   Target(<<Str("foo"), Num(2), Str("bar")>>),
   Target(<<Str("a-b"), Num(12)>>),
   Target(<<Str("#blah")>>),
   Target(<<Str("x"), Str("a--b")>>)}

\* like patterns: the README's, one with ^ and $ of its own, the empty one.
LikePatterns == {"*Hello World_", "^a$", ""}

\* Clauses over a target of PathTargets, on either side, beside a literal,
\* a pattern or the target /foo.
PathClauses ==
  UNION {{Clause(t, "eq", Num(42)), Clause(Num(42), "gt", t),
          Clause(t, "lte", foo), Clause(foo, "neq", t)}
           \cup {Clause(t, type, Like(Str(p))) :
                   type \in {"like", "nlike"}, p \in LikePatterns} :
         t \in PathTargets}

\* One such clause alone, or after /foo eq 42.
PathFilters ==
  {Filter(<<Statement("", c)>>) : c \in PathClauses}
    \cup {Filter(<<Statement("", Clause(foo, "eq", Num(42))),
                   Statement(c2, c)>>) :
            c2 \in NextConjunctives, c \in PathClauses}

\* Filters with a statement whose value is neither a Filter nor a Clause
\* (a tree edited by hand), at the top and in a sub-filter.
MalformedFilters ==
  {Filter(<<Statement("", v)>>) : v \in {Str("oops"), Num(1), null}}
    \cup {Filter(<<Statement("", Clause(foo, "eq", Num(42))),
                   Statement(c2, Filter(<<Statement("", Str("oops"))>>))>>) :
            c2 \in NextConjunctives}

\* More settings: two required fields; an allow list beside a required
\* field it does not hold; an allow list of two; a deny list holding a
\* field of an illegal segment; an empty allow list beside a deny list.
PolicySettings ==
  {[require |-> Array(<<Str("/bar/baz"), Str("/foo")>>)],
   [allow |-> Array(<<Str("/foo")>>),
    require |-> Array(<<Str("/bar/baz")>>)],
   [allow |-> Array(<<Str("/foo"), Str("/bar/baz")>>)],
   [deny |-> Array(<<Str("/x/a--b")>>)],
   [allow |-> Array(<<>>), deny |-> Array(<<Str("/bar/baz")>>)]}

PolicyStrategies == {Strategy(settings).value : settings \in PolicySettings}

(***************************************************************************)
(* The state machine: one call of convert on a filter and a strategy.      *)
(***************************************************************************)
NoResult == [pending |-> TRUE]

\* A variable that holds no object (yet).
Unset == [unset |-> TRUE]

\* A filter tree of at most MaxNodes statements under a strategy of
\* Strategies; or a single clause, a pair of clauses, a clause over a
\* target of PathTargets or a malformed filter under any strategy.
Init ==
  /\ \/ /\ \/ filter = Filter(<<>>)
           \/ \E n \in 1..MaxNodes : \E k \in 1..n :
                \E c \in FirstConjunctives, v \in StatementValues(k),
                   rest \in StatementLists(n - k, FALSE) :
                  filter = Filter(<<Statement(c, v)>> \o rest)
        /\ strategy \in Strategies
     \/ /\ \/ filter \in ClauseFilters
           \/ filter \in PairFilters
           \/ filter \in PathFilters
           \/ filter \in MalformedFilters
        /\ strategy \in Strategies \cup PolicyStrategies
  /\ pc = "called"
  /\ result = NoResult
  /\ options = Unset
  /\ builder = Unset
  /\ given = Unset
  /\ calls = 1

\* The call ends: it returns { fields, value } or throws.
Convert ==
  /\ pc = "called"
  /\ result' = convert(filter, strategy)
  /\ pc' = IF result'.threw THEN "thrown" ELSE "returned"
  /\ UNCHANGED <<filter, strategy, options, builder, given, calls>>

Next == Convert

Spec == Init /\ [][Next]_vars

(***************************************************************************)
(* A session: a Strategy is constructed from options (or none is, and      *)
(* convert is called without one), then convert is called up to MaxCalls   *)
(* times with that same Strategy instance. A call goes through the         *)
(* statements of convert one by one: new Builder, build, validate, return. *)
(* filter and strategy are the objects passed, as they now are; given      *)
(* keeps them as they were when passed.                                    *)
(***************************************************************************)
\* What new Strategy is given: no settings, settings that are no object,
\* lists that are absent, null, empty, no array, or hold a member that is
\* no string, one list, and both lists.
SessionSettings ==
  {undefined, null, Str("allow"),
   <<>>,
   [allow |-> Array(<<>>)],
   [deny |-> Array(<<>>)],
   [allow |-> Array(<<>>), deny |-> Array(<<>>)],
   [allow |-> null, deny |-> undefined],
   [allow |-> Array(<<Str("/foo")>>)],
   [deny |-> Array(<<Str("/foo")>>)],
   [allow |-> Array(<<Str("/foo"), Str("/bar/baz"), Str("/foo")>>),
    deny |-> Array(<<>>)],
   [allow |-> null, deny |-> Array(<<Str("/bar/baz")>>)],
   [require |-> Array(<<Str("/bar/baz")>>)],
   [allow |-> Array(<<>>), require |-> Array(<<Str("/foo")>>)],
   [deny |-> Array(<<Str("/foo")>>),
    require |-> Array(<<Str("/bar/baz"), Str("/foo")>>)],
   [allow |-> Array(<<Str("/foo")>>), deny |-> Array(<<Str("/bar/baz")>>)],
   [allow |-> Array(<<Str("/foo")>>), deny |-> Array(<<Str("/foo")>>),
    require |-> Array(<<Str("/foo")>>)],
   [allow |-> Str("/foo")],
   [deny |-> Num(1)],
   [allow |-> [foo |-> TRUE]],
   [allow |-> Array(<<Str("/foo"), Num(1)>>)],
   [deny |-> Array(<<null>>)],
   [allow |-> Array(<<Str("/foo")>>), deny |-> Str("/bar/baz")]}

\* The filters of the calls: the empty one, single clauses (a Target on
\* either side, on both, on none), a target with an illegal segment, a
\* malformed statement, an unknown operator, and trees.
CallFilters ==
  {Filter(<<>>),
   Filter(<<Statement("", Clause(foo, "eq", Num(42)))>>),
   Filter(<<Statement("", Clause(barbaz, "gt", Num(0)))>>),
   Filter(<<Statement("", Clause(Num(42), "gt", foo))>>),
   Filter(<<Statement("", Clause(foo, "lt", barbaz))>>),
   Filter(<<Statement("", Clause(Str("a"), "neq", Str("b")))>>),
   Filter(<<Statement("", Clause(Target(<<Str("x"), Str("a--b")>>), "eq",
                                 Num(42)))>>),
   Filter(<<Statement("", Str("oops"))>>),
   Filter(<<Statement("", Clause(foo, "nope", Num(42)))>>),
   Filter(<<Statement("", Clause(foo, "eq", Num(42))),
            Statement("or", Clause(Num(0), "lte", barbaz))>>),
   Filter(<<Statement("", Clause(barbaz, "gt", Num(0))),
            Statement("and",
              Filter(<<Statement("", Clause(foo, "eq", Num(42))),
                       Statement("or", Clause(Num(42), "nope", Num(1)))>>)),
            Statement("or", Clause(foo, "eq", Num(42)))>>),
   Filter(<<Statement("",
              Filter(<<Statement("", Clause(barbaz, "gt", Num(0))),
                       Statement("or",
                         Filter(<<Statement("",
                                    Clause(Num(42), "gte", foo))>>))>>)),
            Statement("and", Clause(barbaz, "gt", Num(0)))>>)}

SessionInit ==
  /\ options \in SessionSettings \cup {Unset}
  /\ pc = "start"
  /\ strategy = Unset
  /\ filter = Unset
  /\ builder = Unset
  /\ given = Unset
  /\ result = NoResult
  /\ calls = 0

\* new Strategy(settings), settings being options: the instance, or what the constructor throws.
Construct ==
  /\ pc = "start"
  /\ options # Unset
  /\ result' = Strategy(options)
  /\ pc' = IF result'.threw THEN "refused" ELSE "idle"
  /\ strategy' = IF result'.threw THEN strategy ELSE result'.value
  /\ UNCHANGED <<filter, options, builder, given, calls>>

\* No Strategy is constructed: the calls leave the argument out, and the
\* parameter takes the module's defaultStrategy.
UseDefault ==
  /\ pc = "start"
  /\ options = Unset
  /\ strategy' = defaultStrategy
  /\ pc' = "idle"
  /\ UNCHANGED <<filter, result, options, builder, given, calls>>

\* convert(filter, strategy) is entered: const builder = new Builder(...)
Call ==
  /\ pc \in {"idle", "returned", "thrown"}
  /\ calls < MaxCalls
  /\ \E f \in CallFilters :
       /\ filter' = f
       /\ given' = [filter |-> f, strategy |-> strategy]
       /\ builder' = Builder(f, strategy)
  /\ pc' = "constructed"
  /\ result' = NoResult
  /\ calls' = calls + 1
  /\ UNCHANGED <<strategy, options>>

\* builder.build(): the Builder as build leaves it, the filter and the
\* strategy as the Builder's references show them; or the error thrown.
Build ==
  /\ pc = "constructed"
  /\ LET built == build(builder)
     IN  /\ pc' = IF built.threw THEN "thrown" ELSE "built"
         /\ result' = IF built.threw THEN built ELSE result
         /\ builder' = IF built.threw THEN builder ELSE built.self
  /\ filter' = builder'._filter
  /\ strategy' = builder'._strategy
  /\ UNCHANGED <<options, given, calls>>

\* builder.validate()
Validate ==
  /\ pc = "built"
  /\ LET valid == validate(builder)
     IN  /\ pc' = IF valid.threw THEN "thrown" ELSE "validated"
         /\ result' = IF valid.threw THEN valid ELSE result
         /\ builder' = IF valid.threw THEN builder ELSE valid.self
  /\ filter' = builder'._filter
  /\ strategy' = builder'._strategy
  /\ UNCHANGED <<options, given, calls>>

\* return { fields: builder.fields, value: builder.value }
Finish ==
  /\ pc = "validated"
  /\ result' = Value([fields |-> builder.fields, value |-> builder.value])
  /\ pc' = "returned"
  /\ UNCHANGED <<filter, strategy, options, builder, given, calls>>

SessionNext ==
  \/ Construct
  \/ UseDefault
  \/ Call
  \/ Build
  \/ Validate
  \/ Finish

SessionSpec == SessionInit /\ [][SessionNext]_vars

(***************************************************************************)
(* What the properties below speak of.                                     *)
(***************************************************************************)
Returned == pc = "returned"

\* The root fragment of the document returned.
Root == result.value.value.filter

\* The Builder of the call, as constructed.
Run == Builder(filter, strategy)

\* The statements after the first that are joined by OR.
OrBoundaries(f) ==
  {i \in 2..Len(f.statements) : f.statements[i].conjunctive = "or"}

\* The OR-delimited group statement i falls in, and its place in the group.
GroupOf(f, i) == 1 + Cardinality({j \in OrBoundaries(f) : j <= i})
PlaceInGroup(f, i) ==
  Cardinality({j \in 1..i : GroupOf(f, j) = GroupOf(f, i)})
GroupSize(f, g) ==
  Cardinality({i \in 1..Len(f.statements) : GroupOf(f, i) = g})

\* The fragment a statement's value compiles to by itself.
FragmentOf(sval) ==
  IF IsFilter(sval) THEN _build(Run, sval).value ELSE _clause(Run, sval).value

\* The AND groups of a bool container of the tree compiler.
Groups(dsl) ==
  IF "should" \in DOMAIN dsl.bool
    THEN [g \in 1..Len(dsl.bool.should) |-> dsl.bool.should[g].bool.must]
    ELSE <<dsl.bool.must>>

\* The fragment of statement i of filter f in its container dsl.
FragmentAt(f, dsl, i) == Groups(dsl)[GroupOf(f, i)][PlaceInGroup(f, i)]

\* C1: a filter in which no statement after the first is joined by OR
\* converts to value.filter = { bool: { must: [...] } } with no should key,
\* must holding one fragment per statement, in statement order.
C1_MustOnlyWithoutOr ==
  (Returned /\ OrBoundaries(filter) = {}) =>
    /\ DOMAIN result.value.value = {"filter"}
    /\ DOMAIN Root = {"bool"}
    /\ DOMAIN Root.bool = {"must"}
    /\ Len(Root.bool.must) = Len(filter.statements)
    /\ \A i \in 1..Len(filter.statements) :
         Root.bool.must[i] = FragmentOf(filter.statements[i].value)

\* Three statements joined by AND, the first marked OR, one a sub-filter.
C1_Witness ==
  /\ Returned
  /\ OrBoundaries(filter) = {}
  /\ Len(filter.statements) = 3
  /\ filter.statements[1].conjunctive = "or"
  /\ \E i \in 1..3 : IsFilter(filter.statements[i].value)

RECURSIVE OneOfMustShould(_, _)
OneOfMustShould(f, dsl) ==
  /\ DOMAIN dsl = {"bool"}
  /\ ("must" \in DOMAIN dsl.bool) # ("should" \in DOMAIN dsl.bool)
  /\ \A i \in 1..Len(f.statements) :
       IsFilter(f.statements[i].value) =>
         OneOfMustShould(f.statements[i].value, FragmentAt(f, dsl, i))

\* C3: every bool container the tree compiler emits (the root and every
\* compiled sub-filter) has exactly one of the keys must and should.
C3_ExactlyOneOfMustShould ==
  Returned => OneOfMustShould(filter, Root)

\* A root with must that holds a sub-filter with should.
C3_Witness ==
  /\ Returned
  /\ "must" \in DOMAIN Root.bool
  /\ \E i \in 1..Len(filter.statements) :
       /\ IsFilter(filter.statements[i].value)
       /\ "should" \in DOMAIN FragmentAt(filter, Root, i).bool

\* Whether, at the level of filter f and below, the groups are those of the
\* level's own conjunctions, and each sub-filter is one fragment, its own
\* container, at its place in its group.
RECURSIVE SubFiltersAreOneFragment(_, _)
SubFiltersAreOneFragment(f, dsl) ==
  (\E i \in 1..Len(f.statements) : IsFilter(f.statements[i].value)) =>
    /\ Len(Groups(dsl)) = Cardinality(OrBoundaries(f)) + 1
    /\ \A g \in 1..Len(Groups(dsl)) : Len(Groups(dsl)[g]) = GroupSize(f, g)
    /\ \A i \in 1..Len(f.statements) :
         IsFilter(f.statements[i].value) =>
           /\ FragmentAt(f, dsl, i) = _build(Run, f.statements[i].value).value
           /\ SubFiltersAreOneFragment(f.statements[i].value,
                                       FragmentAt(f, dsl, i))

\* C4: a statement whose value is a nested filter is compiled recursively
\* and contributes exactly one fragment, its own bool container, to the
\* current AND group of the enclosing level; OR inside the nested filter
\* neither splits nor closes a group of the enclosing level.
C4_NestedFilterIsOneFragment ==
  Returned => SubFiltersAreOneFragment(filter, Root)

\* clause AND (clause OR clause): the sub-filter holds an OR.
C4_Witness ==
  /\ Returned
  /\ Len(filter.statements) = 2
  /\ ~IsFilter(filter.statements[1].value)
  /\ filter.statements[2].conjunctive = "and"
  /\ IsFilter(filter.statements[2].value)
  /\ OrBoundaries(filter.statements[2].value) # {}

(***************************************************************************)
(* The fragments of single clauses.                                        *)
(***************************************************************************)
\* The statements of the filter whose value is a Clause, the clause of
\* statement i and the fragment in the place of statement i.
TopClauses ==
  {i \in 1..Len(filter.statements) : IsClause(filter.statements[i].value)}
ClauseAt(i) == filter.statements[i].value
Fragment(i) == FragmentAt(filter, Root, i)

\* The canonical dotted key of a target: its segments, as text, joined by
\* dots.
RECURSIVE Dotted(_, _)
Dotted(path, i) ==
  IF i > Len(path) THEN ""
  ELSE (IF i = 1 THEN "" ELSE ".") \o SegmentToString(path[i])
         \o Dotted(path, i + 1)
CanonicalKey(target) == Dotted(target.path, 1)

Ordering == {"gt", "gte", "lt", "lte"}
Comparisons == Ordering \cup {"eq", "neq"}

\* A literal: a number, a string, a Boolean or nil.
IsLiteral(v) ==
  DOMAIN v \in {{"number"}, {"string"}, {"boolean"}, {"null"}}

\* Whether exactly one side of clause c is a Target; the side that is not.
OneTarget(c) == IsTarget(c.subject) # IsTarget(c.object)
OtherSide(c) == IF IsTarget(c.object) THEN c.subject ELSE c.object
TargetSide(c) == IF IsTarget(c.object) THEN c.object ELSE c.subject

\* The fragment of a clause with a Target subject, by operator.
C5_Expected(c) ==
  CASE c.operator.type = "eq" ->
         [term |-> (CanonicalKey(c.subject) :> c.object)]
    [] c.operator.type \in Ordering ->
         [range |->
           (CanonicalKey(c.subject) :> (c.operator.type :> c.object))]
    [] c.operator.type = "between" ->
         [range |->
           (CanonicalKey(c.subject) :>
              [gte |-> c.object.lower, lte |-> c.object.upper])]
    [] c.operator.type = "in" ->
         [terms |-> (CanonicalKey(c.subject) :> c.object)]

\* C5: for a clause with a Target subject and a non-null, non-Target
\* object the fragment is, by operator: eq -> { term: { key: object } };
\* gt/gte/lt/lte -> { range: { key: { <operator>: object } } }; between ->
\* { range: { key: { gte: lower, lte: upper } } }; in -> { terms: { key:
\* sequence } }, the sequence as given (order and duplicates kept); key is
\* the target's dotted key.
C5_FragmentByOperator ==
  Returned =>
    \A i \in TopClauses :
      ( /\ IsTarget(ClauseAt(i).subject)
        /\ ~IsTarget(ClauseAt(i).object)
        /\ ClauseAt(i).object # null
        /\ ClauseAt(i).operator.type
             \in Ordering \cup {"eq", "between", "in"} ) =>
        /\ ClauseAt(i).operator.type = "between" => IsRange(ClauseAt(i).object)
        /\ ClauseAt(i).operator.type = "in" => IsArray(ClauseAt(i).object)
        /\ Fragment(i) = C5_Expected(ClauseAt(i))

\* /bar/baz in [2, 1, 2]: terms on bar.baz with the sequence as given.
C5_Witness ==
  /\ Returned
  /\ \E i \in TopClauses :
       /\ ClauseAt(i) = Clause(barbaz, "in", Array(<<Num(2), Num(1), Num(2)>>))
       /\ Fragment(i)
            = [terms |-> ("bar.baz" :> Array(<<Num(2), Num(1), Num(2)>>))]

\* The positive operator of a negated one.
Positive(type) ==
  CASE type = "neq" -> "eq"
    [] type = "nlike" -> "like"
    [] type = "nbetween" -> "between"
    [] type = "nin" -> "in"

\* Whether fragment dsl is { bool: { must_not: F } }, F the fragment of
\* the positive operator for the subject and object of clause c.
NegationOfPositive(c, dsl) ==
  /\ ~_clause(Run, Clause(c.subject, Positive(c.operator.type), c.object)).threw
  /\ dsl = [bool |->
             [must_not |->
               _clause(Run, Clause(c.subject, Positive(c.operator.type),
                                   c.object)).value]]

\* C6 as stated, for every clause: for neq with a non-null object, nlike,
\* nbetween and nin the fragment is { bool: { must_not: F } }, F the
\* fragment of the positive operator for the same subject and object.
\* /foo neq /bar/baz and 'a' neq 'b' compile to a script with != and
\* nil neq /bar/baz to exists.
C6_NegationForEveryClause ==
  Returned =>
    \A i \in TopClauses :
      ( \/ ClauseAt(i).operator.type = "neq" /\ ClauseAt(i).object # null
        \/ ClauseAt(i).operator.type \in {"nlike", "nbetween", "nin"} ) =>
        NegationOfPositive(ClauseAt(i), Fragment(i))

\* C6, for the clauses with exactly one Target side: for neq with a
\* non-null operand beside the Target, nlike, nbetween and nin the fragment
\* is { bool: { must_not: F } }, F the fragment of the positive operator
\* (eq, like, between, in) for the same subject and object.
C6_NegationWithOneTarget ==
  Returned =>
    \A i \in TopClauses :
      ( /\ OneTarget(ClauseAt(i))
        /\ \/ /\ ClauseAt(i).operator.type = "neq"
              /\ OtherSide(ClauseAt(i)) # null
           \/ ClauseAt(i).operator.type \in {"nlike", "nbetween", "nin"} ) =>
        NegationOfPositive(ClauseAt(i), Fragment(i))

\* /foo nbetween 1,5: must_not of the range of between.
C6_Witness ==
  /\ Returned
  /\ \E i \in TopClauses :
       /\ ClauseAt(i) = Clause(foo, "nbetween", Range(Num(1), Num(5)))
       /\ Fragment(i)
            = [bool |-> [must_not |->
                [range |-> ("foo" :> [gte |-> Num(1), lte |-> Num(5)])]]]

\* The inverse of an ordering operator; eq and neq are their own.
Inv(type) ==
  CASE type = "gt" -> "lt"
    [] type = "gte" -> "lte"
    [] type = "lt" -> "gt"
    [] type = "lte" -> "gte"
    [] OTHER -> type

\* Clause c with its sides exchanged and its operator inverted, and the
\* filter with that clause in the place of statement i.
Swapped(c) == Clause(c.object, Inv(c.operator.type), c.subject)
WithSwapped(i) ==
  Filter([filter.statements EXCEPT ![i].value = Swapped(ClauseAt(i))])

\* C7: for a literal X, a target T and op in {gt, gte, lt, lte},
\* 'X op T' compiles to the same fragment as 'T inv(op) X' (inv(gt) = lt,
\* inv(gte) = lte, inv(lt) = gt, inv(lte) = gte); for eq and neq 'X op T'
\* compiles to the same fragment as 'T op X'. The whole outcome of the
\* call is the same: the document and its fields, or the error.
C7_SwapAndInvert ==
  pc # "called" =>
    \A i \in TopClauses :
      ( /\ IsLiteral(ClauseAt(i).subject)
        /\ IsTarget(ClauseAt(i).object)
        /\ ClauseAt(i).operator.type \in Comparisons ) =>
        /\ convert(WithSwapped(i), strategy) = result
        /\ Returned =>
             Fragment(i) = FragmentAt(WithSwapped(i),
                             convert(WithSwapped(i), strategy).value.value.filter,
                             i)

\* 42 gte /foo: the range of /foo lte 42.
C7_Witness ==
  /\ Returned
  /\ \E i \in TopClauses :
       /\ ClauseAt(i) = Clause(Num(42), "gte", foo)
       /\ Fragment(i) = [range |-> ("foo" :> ("lte" :> Num(42)))]

\* Whether fragment dsl is exists or negated exists, on any field.
IsExists(dsl) == DOMAIN dsl = {"exists"}
IsNegatedExists(dsl) ==
  /\ DOMAIN dsl = {"bool"}
  /\ DOMAIN dsl.bool = {"must_not"}
  /\ IsExists(dsl.bool.must_not)

\* The fragment of a comparison of a Target with nil: the polarity is that
\* of the operator with the Target as the subject.
C8_Expected(c) ==
  IF (IF IsTarget(c.object) THEN Inv(c.operator.type) ELSE c.operator.type)
       \in {"eq", "lt", "lte"}
    THEN [bool |-> [must_not |->
           [exists |-> [field |-> CanonicalKey(TargetSide(c))]]]]
    ELSE [exists |-> [field |-> CanonicalKey(TargetSide(c))]]

\* C8 as stated, for every comparison with nil on a side: with eq, neq,
\* gt, gte, lt or lte it compiles to exists or negated exists, never to
\* term or range, with the polarity of the normalized operator. 'a' eq nil
\* and nil eq nil compile to a script.
C8_ExistsForEveryNil ==
  Returned =>
    \A i \in TopClauses :
      ( /\ ClauseAt(i).subject = null \/ ClauseAt(i).object = null
        /\ ClauseAt(i).operator.type \in Comparisons ) =>
        /\ IsExists(Fragment(i)) \/ IsNegatedExists(Fragment(i))
        /\ OneTarget(ClauseAt(i)) => Fragment(i) = C8_Expected(ClauseAt(i))

\* C8, for the comparisons of a Target with nil: with eq, neq, gt, gte, lt
\* or lte the fragment is exists or negated exists, never term or range,
\* with polarity after operand normalization: eq, lt, lte ->
\* { bool: { must_not: { exists: { field: key } } } }; neq, gt, gte ->
\* { exists: { field: key } }.
C8_ExistsForTargetAndNil ==
  Returned =>
    \A i \in TopClauses :
      ( /\ OneTarget(ClauseAt(i))
        /\ OtherSide(ClauseAt(i)) = null
        /\ ClauseAt(i).operator.type \in Comparisons ) =>
        Fragment(i) = C8_Expected(ClauseAt(i))

\* nil gt /bar/baz is negated exists; so is /bar/baz lte nil.
C8_Witness ==
  /\ Returned
  /\ \E i \in TopClauses :
       /\ ClauseAt(i) \in {Clause(null, "gt", barbaz),
                           Clause(barbaz, "lte", null)}
       /\ Fragment(i)
            = [bool |-> [must_not |-> [exists |-> [field |-> "bar.baz"]]]]

\* The symbol of a comparison operator in a script.
Symbol(type) ==
  CASE type = "eq" -> "=="
    [] type = "neq" -> "!="
    [] type = "gt" -> ">"
    [] type = "gte" -> ">="
    [] type = "lt" -> "<"
    [] type = "lte" -> "<="

\* C9: a clause whose subject and object are both Targets, with eq, neq,
\* gt, gte, lt or lte, compiles to a script fragment of text
\* "doc['S'].value SYM doc['O'].value", S and O the dotted keys of the
\* subject and the object as given (no swap, no inversion), SYM one of
\* ==, !=, >, >=, <, <=.
C9_ScriptOfTwoTargets ==
  Returned =>
    \A i \in TopClauses :
      ( /\ IsTarget(ClauseAt(i).subject)
        /\ IsTarget(ClauseAt(i).object)
        /\ ClauseAt(i).operator.type \in Comparisons ) =>
        Fragment(i)
          = [script |->
              [script |->
                "doc['" \o CanonicalKey(ClauseAt(i).subject) \o "'].value "
                  \o Symbol(ClauseAt(i).operator.type)
                  \o " doc['" \o CanonicalKey(ClauseAt(i).object)
                  \o "'].value"]]

\* /bar/baz gt /foo keeps its order and its operator.
C9_Witness ==
  /\ Returned
  /\ \E i \in TopClauses :
       /\ ClauseAt(i) = Clause(barbaz, "gt", foo)
       /\ Fragment(i)
            = [script |->
                [script |-> "doc['bar.baz'].value > doc['foo'].value"]]

\* The filter without statement i.
Without(i) ==
  Filter(SubSeq(filter.statements, 1, i - 1)
           \o SubSeq(filter.statements, i + 1, Len(filter.statements)))

\* C10: a clause in which neither side is a Target, with eq, neq, gt, gte,
\* lt or lte, compiles to a script fragment whose source is the fixed text
\* 'params.subject SYM params.object' and whose params are the subject and
\* the object; the fields list is that of the filter without the clause.
C10_ScriptOfTwoLiterals ==
  Returned =>
    \A i \in TopClauses :
      ( /\ ~IsTarget(ClauseAt(i).subject)
        /\ ~IsTarget(ClauseAt(i).object)
        /\ ClauseAt(i).operator.type \in Comparisons ) =>
        /\ Fragment(i)
             = [script |->
                 [script |->
                   [source |-> "params.subject "
                                 \o Symbol(ClauseAt(i).operator.type)
                                 \o " params.object",
                    params |-> [subject |-> ClauseAt(i).subject,
                                object |-> ClauseAt(i).object]]]]
        /\ result.value.fields = _build(Run, Without(i)).self.fields

\* /foo eq 42 beside 'a' neq 'b': the only field is /foo.
C10_Witness ==
  /\ Returned
  /\ result.value.fields = <<"/foo">>
  /\ \E i \in TopClauses :
       /\ ClauseAt(i) = Clause(Str("a"), "neq", Str("b"))
       /\ Fragment(i).script.script.source = "params.subject != params.object"
       /\ Fragment(i).script.script.params
            = [subject |-> Str("a"), object |-> Str("b")]

(***************************************************************************)
(* Patterns, keys and errors.                                              *)
(***************************************************************************)
\* C11: for a like clause the fragment is { regexp: { key: R } }, R the
\* rendering of the pattern less exactly one leading ^ and exactly one
\* trailing $ (the rendering has both); '*Hello World_' on /foo/bar gives
\* the key foo.bar and R = '.*Hello World.{1}'.
C11_LikeIsRegexp ==
  Returned =>
    \A i \in TopClauses :
      ClauseAt(i).operator.type = "like" =>
        /\ IsTarget(ClauseAt(i).subject)
        /\ IsLike(ClauseAt(i).object)
        /\ DOMAIN Fragment(i) = {"regexp"}
        /\ DOMAIN Fragment(i).regexp = {CanonicalKey(ClauseAt(i).subject)}
        /\ "^" \o Fragment(i).regexp[CanonicalKey(ClauseAt(i).subject)] \o "$"
             = toRegexString(ClauseAt(i).object)
        /\ ClauseAt(i) = Clause(foobar, "like", Like(Str("*Hello World_"))) =>
             Fragment(i) = [regexp |-> ("foo.bar" :> ".*Hello World.{1}")]

\* A pattern with ^ and $ of its own keeps them: only the anchors of the
\* rendering are removed.
C11_Witness ==
  /\ Returned
  /\ \E i \in TopClauses :
       /\ ClauseAt(i) = Clause(foobar, "like", Like(Str("^a$")))
       /\ Fragment(i) = [regexp |-> ("foo.bar" :> "^a$")]

\* C12: the key of a target whose segments are all legal is its path
\* segments as text, in order, joined by single dots, with no dot before
\* the first or after the last: ['foo', 'bar'] gives 'foo.bar' and a
\* segment 2 is written '2'. The key is read off the term fragment of
\* 'T eq 42'.
C12_KeyIsDottedPath ==
  Returned =>
    \A i \in TopClauses :
      ( /\ IsTarget(ClauseAt(i).subject)
        /\ ClauseAt(i).operator.type = "eq"
        /\ IsNumber(ClauseAt(i).object) ) =>
        /\ DOMAIN Fragment(i) = {"term"}
        /\ DOMAIN Fragment(i).term = {CanonicalKey(ClauseAt(i).subject)}
        /\ \A key \in DOMAIN Fragment(i).term :
             /\ ~StartsWith(key, ".")
             /\ ~EndsWith(key, ".")
             /\ ClauseAt(i).subject.path = <<Str("foo"), Str("bar")>> =>
                  key = "foo.bar"
             /\ ClauseAt(i).subject.path = <<Str("foo"), Num(2), Str("bar")>> =>
                  key = "foo.2.bar"
             /\ ClauseAt(i).subject.path = <<Str("a-b"), Num(12)>> =>
                  key = "a-b.12"

\* /foo/2/bar eq 42: the term is on foo.2.bar.
C12_Witness ==
  /\ Returned
  /\ \E i \in TopClauses :
       /\ ClauseAt(i)
            = Clause(Target(<<Str("foo"), Num(2), Str("bar")>>), "eq", Num(42))
       /\ Fragment(i) = [term |-> ("foo.2.bar" :> Num(42))]

\* The Targets a filter refers to, in the order of a depth-first,
\* left-to-right walk, the subject of a clause before its object.
ClauseRefs(c) ==
  (IF IsTarget(c.subject) THEN <<c.subject>> ELSE <<>>)
    \o (IF IsTarget(c.object) THEN <<c.object>> ELSE <<>>)

RECURSIVE Refs(_), RefsFrom(_, _)
RefsFrom(f, i) ==
  IF i > Len(f.statements) THEN <<>>
  ELSE (IF IsFilter(f.statements[i].value) THEN Refs(f.statements[i].value)
        ELSE IF IsClause(f.statements[i].value)
          THEN ClauseRefs(f.statements[i].value)
        ELSE <<>>)
         \o RefsFrom(f, i + 1)
Refs(f) == RefsFrom(f, 1)

\* The fields of a sequence of targets.
FieldsOf(refs) == {refs[k].field : k \in 1..Len(refs)}

\* The segments of the targets of the inputs that have a disallowed
\* character or two or more hyphens in a row, and whether a target of the
\* inputs has such a segment.
IllegalSegments == {Str("#blah"), Str("a--b")}

HasIllegalSegment(target) ==
  \E i \in 1..Len(target.path) : target.path[i] \in IllegalSegments

\* IllegalSegments holds exactly the segments of the targets of the inputs
\* with a disallowed character or two or more hyphens in a row.
IllegalSegmentsAreExact ==
  \A t \in PathTargets \cup {foo, barbaz} :
    \A i \in 1..Len(t.path) :
      (t.path[i] \in IllegalSegments)
        = (\/ \E n \in 1..Len(SegmentToString(t.path[i])) :
                SubSeq(SegmentToString(t.path[i]), n, n)
                  \in {"\"", "{", "}", ";", ",", "[", "]", ":", "(", ")",
                       "'", "*", ">", "#", "~", "@", "&", "%", "?"}
           \/ \E n \in 1..(Len(SegmentToString(t.path[i])) - 1) :
                SubSeq(SegmentToString(t.path[i]), n, n + 1) = "--")

\* Whether the strategy permits a field.
Permitted(field) ==
  /\ strategy.allow = {} \/ field \in strategy.allow
  /\ strategy.deny = {} \/ field \notin strategy.deny

AllLegal(refs) == \A k \in 1..Len(refs) : ~HasIllegalSegment(refs[k])
AllPermitted(refs) == \A k \in 1..Len(refs) : Permitted(refs[k].field)

\* Whether a clause is well formed: a known operator for the kinds of its
\* operands.
WellFormedClause(c) ==
  IF OneTarget(c)
    THEN \/ c.operator.type \in Comparisons
         \/ /\ c.operator.type \in {"like", "nlike"}
            /\ IsLike(OtherSide(c))
            /\ IsString(OtherSide(c).value)
         \/ c.operator.type \in {"between", "nbetween"} /\ IsRange(OtherSide(c))
         \/ c.operator.type \in {"in", "nin"} /\ IsArray(OtherSide(c))
    ELSE c.operator.type \in Comparisons

\* Whether every statement of a filter, at every level, is a sub-filter or
\* a well-formed clause.
RECURSIVE WellFormed(_)
WellFormed(f) ==
  \A i \in 1..Len(f.statements) :
    IF IsFilter(f.statements[i].value) THEN WellFormed(f.statements[i].value)
    ELSE /\ IsClause(f.statements[i].value)
         /\ WellFormedClause(f.statements[i].value)

\* The place of the first of the targets refs with an illegal segment, and
\* the error convert throws for a target with an illegal segment.
FirstIllegal(refs) ==
  CHOOSE k \in 1..Len(refs) :
    /\ HasIllegalSegment(refs[k])
    /\ \A j \in 1..(k - 1) : ~HasIllegalSegment(refs[j])

InvalidTargetErrorOf(target) ==
  [name |-> "InvalidTargetError",
   message |-> "Invalid target encountered: " \o target.field,
   data |-> target.path]

\* C13 for a filter that refers to the targets refs.
IllegalSegmentFails(refs) ==
  IF AllLegal(refs)
    THEN ( /\ AllPermitted(refs)
           /\ WellFormed(filter)
           /\ \A r \in 1..Len(strategy.require) :
                \E k \in 1..Len(refs) : refs[k].field = strategy.require[r] ) =>
           Returned
    ELSE /\ pc = "thrown"
         /\ (WellFormed(filter) /\ AllPermitted(refs)) =>
              result.error = InvalidTargetErrorOf(refs[FirstIllegal(refs)])

FirstUnpermitted(refs) ==
  CHOOSE k \in 1..Len(refs) :
    /\ ~Permitted(refs[k].field)
    /\ \A j \in 1..(k - 1) : Permitted(refs[j].field)

GovernanceErrorOf(field) ==
  IF strategy.deny # {}
    THEN [name |-> "DeniedFieldError",
          message |-> "Black listed field encountered: " \o field,
          data |-> field]
    ELSE [name |-> "NonallowedFieldError",
          message |-> "Non-white listed field encountered: " \o field,
          data |-> field]

\* C14 for a filter that refers to the targets refs.
GovernanceOfEveryTarget(refs) ==
  IF AllPermitted(refs)
    THEN Returned =>
           \A k \in 1..Len(result.value.fields) :
             Permitted(result.value.fields[k])
    ELSE /\ pc = "thrown"
         /\ ( /\ WellFormed(filter)
              /\ \A j \in 1..(FirstUnpermitted(refs) - 1) :
                   ~HasIllegalSegment(refs[j]) ) =>
              result.error
                = GovernanceErrorOf(refs[FirstUnpermitted(refs)].field)

Required == {strategy.require[r] : r \in 1..Len(strategy.require)}

\* C15 for a filter that refers to the targets refs.
AllowOrRequirePermits(refs) ==
  (WellFormed(filter) /\ AllLegal(refs)) =>
    ( (pc = "thrown" /\ result.error.name = "NonallowedFieldError")
        <=> \E k \in 1..Len(refs) :
              refs[k].field \notin strategy.allow \cup Required )

\* C15 as stated in the README: with a non-empty allow list, the filter
\* being well formed and its targets legal, convert fails with
\* NonallowedFieldError exactly when the filter refers to a target whose
\* field is in neither the allow list nor the require list. The code tests
\* the allow list alone: with allow ['/foo'] and require ['/bar/baz'],
\* '/foo lt /bar/baz' fails with NonallowedFieldError on /bar/baz.
C15_AllowOrRequirePermits ==
  (pc # "called" /\ strategy.allow # {}) =>
    AllowOrRequirePermits(Refs(filter))

\* '/foo eq 42' converted with a strategy of deny: ['/foo'].
FooDenied ==
  /\ pc # "called"
  /\ Len(filter.statements) = 1
  /\ filter.statements[1].value = Clause(foo, "eq", Num(42))
  /\ strategy = Strategy([deny |-> Array(<<Str("/foo")>>)]).value

\* C16 as stated: '/foo eq 42' with deny: ['/foo'] fails with
\* DeniedFieldError carrying 'foo'. The error carries '/foo'.
C16_DeniedCarriesKey ==
  FooDenied =>
    /\ pc = "thrown"
    /\ result.error.name = "DeniedFieldError"
    /\ result.error.data = "foo"

\* C16, with the field as the code carries it: '/foo eq 42' with
\* deny: ['/foo'] fails with DeniedFieldError carrying '/foo', the field in
\* pointer form, which is the entry of the deny list that matched.
C16_DeniedCarriesPointer ==
  FooDenied =>
    /\ pc = "thrown"
    /\ result.error
         = [name |-> "DeniedFieldError",
            message |-> "Black listed field encountered: /foo",
            data |-> "/foo"]
    /\ result.error.data \in strategy.deny

\* The call has failed.
C16_Witness ==
  /\ FooDenied
  /\ pc = "thrown"
  /\ result.error.data = "/foo"

\* The first field of the require list that is not among fields.
FirstMissing(fields) ==
  strategy.require[CHOOSE r \in 1..Len(strategy.require) :
                     /\ strategy.require[r] \notin fields
                     /\ \A q \in 1..(r - 1) : strategy.require[q] \in fields]

\* C17 for a filter whose walk is clean or not and that refers to fields.
RequiredAfterTraversal(clean, fields) ==
  /\ Returned =>
       \A f \in Required :
         \E k \in 1..Len(result.value.fields) : result.value.fields[k] = f
  /\ clean =>
       IF Required \subseteq fields
         THEN Returned
         ELSE /\ pc = "thrown"
              /\ result.error
                   = [name |-> "RequiredFieldError",
                      message |-> "Missing required field: "
                                    \o FirstMissing(fields),
                      data |-> FirstMissing(fields)]
  /\ (pc = "thrown" /\ ~clean) => result.error.name # "RequiredFieldError"

\* Whether the walk of a filter that refers to the targets refs meets no
\* error: the filter is well formed and its targets are permitted and
\* legal.
WalkIsClean(refs) ==
  WellFormed(filter) /\ AllPermitted(refs) /\ AllLegal(refs)

\* C17: convert succeeds only if every field of the require list is among
\* the discovered fields; when the whole tree has been walked without
\* error and a required field is missing, convert fails with
\* RequiredFieldError carrying the first missing field in the order of the
\* require list. The test is not made before the walk has finished: an
\* error of the walk comes first, and a required field met in the last
\* statement satisfies the test.
C17_RequiredAfterTraversal ==
  pc # "called" =>
    RequiredAfterTraversal(WalkIsClean(Refs(filter)), FieldsOf(Refs(filter)))

\* Three statements, the required /bar/baz met in the last one only.
C17_Witness ==
  /\ Returned
  /\ strategy.require = <<"/bar/baz">>
  /\ Len(filter.statements) = 3
  /\ filter.statements[1].value = Clause(foo, "eq", Num(42))
  /\ filter.statements[2].value = Clause(foo, "eq", Num(42))
  /\ filter.statements[3].value = Clause(barbaz, "gt", Num(0))

\* The first place of the targets refs that holds field.
FirstReference(refs, field) ==
  CHOOSE k \in 1..Len(refs) :
    /\ refs[k].field = field
    /\ \A j \in 1..(k - 1) : refs[j].field # field

\* C18 for a filter that refers to the targets refs, fields being the list
\* returned: the fields are those of refs, each once, in the order of
\* their first references.
FieldsInFirstOccurrenceOrder(refs, fields) ==
  /\ {fields[n] : n \in 1..Len(fields)} = FieldsOf(refs)
  /\ \A n \in 1..Len(fields) : \A m \in (n + 1)..Len(fields) :
       /\ fields[n] # fields[m]
       /\ FirstReference(refs, fields[n]) < FirstReference(refs, fields[m])

\* C18: on success the fields list holds the field of every Target
\* referred to anywhere in the tree exactly once and nothing else, in the
\* order of first occurrence in a depth-first, left-to-right walk (the
\* subject before the object in a two-target clause), however often and in
\* whichever operand position a field is referred to.
C18_FieldsInFirstOccurrenceOrder ==
  Returned => FieldsInFirstOccurrenceOrder(Refs(filter), result.value.fields)

\* nil gte /bar/baz, then /foo lt /bar/baz: /bar/baz, met as an object
\* twice, comes once and first.
C18_Witness ==
  /\ Returned
  /\ Len(filter.statements) = 2
  /\ filter.statements[1].value = Clause(null, "gte", barbaz)
  /\ filter.statements[2].value = Clause(foo, "lt", barbaz)
  /\ result.value.fields = <<"/bar/baz", "/foo">>

\* C19 for a filter, well formed or not, that refers to the targets refs.
MalformedIsConvertError(wellFormed, refs) ==
  /\ ~wellFormed =>
       /\ pc = "thrown"
       /\ (AllPermitted(refs) /\ AllLegal(refs)) =>
            result.error.name = "ConvertError"
  /\ (pc = "thrown" /\ result.error.name = "ConvertError") => ~wellFormed

\* C19: convert fails with ConvertError in each malformed case: a
\* statement value that is neither a Filter nor a Clause; a like or nlike
\* object that is not a Like of a string; a between or nbetween object
\* that is not a Range; an in or nin object that is not an array; an
\* operator outside the twelve. A malformed filter never converts; its
\* targets being permitted and legal, the error is ConvertError; and
\* ConvertError is thrown for malformed filters only.
C19_MalformedIsConvertError ==
  pc # "called" =>
    /\ MalformedIsConvertError(WellFormed(filter), Refs(filter))
    /\ ~WellFormedClause(Clause(foo, "like", Like(Num(1))))
    /\ ~WellFormedClause(Clause(foo, "nlike", Str("b")))
    /\ ~WellFormedClause(Clause(foo, "between", Num(42)))
    /\ ~WellFormedClause(Clause(foo, "nbetween", Array(<<Num(2), Num(1), Num(2)>>)))
    /\ ~WellFormedClause(Clause(foo, "in", Range(Num(1), Num(5))))
    /\ ~WellFormedClause(Clause(foo, "nin", Num(42)))
    /\ ~WellFormedClause(Clause(foo, "nope", Num(42)))
    /\ ~WellFormed(Filter(<<Statement("", Str("oops"))>>))

\* A statement of a sub-filter whose value is a string.
C19_Witness ==
  /\ pc = "thrown"
  /\ Len(filter.statements) = 2
  /\ filter.statements[2].value = Filter(<<Statement("", Str("oops"))>>)
  /\ result.error.name = "ConvertError"

\* C20 as stated: every ConvertError of convert, the one for an unknown
\* operator included, carries the default message and no text of the
\* input. For '/foo nope 42' the message is 'undefinednope'.
C20_ConvertErrorHasDefaultMessage ==
  (pc = "thrown" /\ result.error.name = "ConvertError") =>
    result.error.message = "Invalid filter.  Unable to convert."

(***************************************************************************)
(* C21 - C25: the Strategy constructor and the calls of a session.         *)
(***************************************************************************)
\* The list of options under key: whether it is given (neither absent,
\* undefined nor null), an array, an array of strings, an array with a
\* member; and the strings it holds.
ListGiven(key) ==
  /\ key \in DOMAIN options
  /\ DOMAIN options[key] \notin {{"undefined"}, {"null"}}

ListIsArray(key) == ListGiven(key) /\ DOMAIN options[key] = {"array"}

ListOfStrings(key) ==
  /\ ListIsArray(key)
  /\ \A i \in 1..Len(options[key].array) :
       DOMAIN options[key].array[i] = {"string"}

ListNonEmpty(key) == ListIsArray(key) /\ Len(options[key].array) > 0

ListStrings(key) ==
  IF ListGiven(key)
    THEN {options[key].array[i].string : i \in 1..Len(options[key].array)}
    ELSE {}

\* Whether options is an object that new Strategy was given.
OptionsIsObject ==
  /\ options # Unset
  /\ DOMAIN options \subseteq {"allow", "deny", "require"}

\* The conditions of C21 under which the construction fails.
ConstructionMustFail ==
  \/ ListNonEmpty("allow") /\ ListNonEmpty("deny")
  \/ \E key \in {"allow", "deny"} : ListGiven(key) /\ ~ListIsArray(key)
  \/ \E key \in {"allow", "deny"} : ListIsArray(key) /\ ~ListOfStrings(key)

\* C21: new Strategy(settings) fails (with a TypeError) when allow and deny
\* are both non-empty, when allow or deny is given and is no array, and
\* when allow or deny holds a member that is no string; otherwise, at most
\* one of the lists being non-empty, it succeeds, and the instance has
\* allow and deny as the sets of the strings given and require as the
\* sequence given, or empty.
C21_StrategyConstruction ==
  (pc # "start" /\ OptionsIsObject) =>
    IF ConstructionMustFail
      THEN /\ pc = "refused"
           /\ result.threw
           /\ result.error.name = "TypeError"
      ELSE /\ pc # "refused"
           /\ ~(ListNonEmpty("allow") /\ ListNonEmpty("deny"))
           /\ strategy.allow = ListStrings("allow")
           /\ strategy.deny = ListStrings("deny")
           /\ strategy.require
                = IF ListGiven("require")
                    THEN [i \in 1..Len(options.require.array) |->
                            options.require.array[i].string]
                    ELSE <<>>

\* allow ['/foo'] beside deny ['/bar/baz'] is refused.
C21_Witness ==
  /\ pc = "refused"
  /\ options = [allow |-> Array(<<Str("/foo")>>),
                deny |-> Array(<<Str("/bar/baz")>>)]
  /\ result.error.message
       = "Argument \"settings\" cannot have by \"allow\" and \"deny\""

\* Whether a call of convert has ended.
CallEnded == pc \in {"returned", "thrown"}

\* Whether the session gives convert no strategy, Strategy({}), or a
\* Strategy of lists that are absent or empty, with nothing required.
Unrestricted ==
  \/ options = Unset
  \/ /\ OptionsIsObject
     /\ ~ConstructionMustFail
     /\ ~ListNonEmpty("allow")
     /\ ~ListNonEmpty("deny")
     /\ ~ListGiven("require")

\* C22: convert called with no strategy, with Strategy({}) or with a
\* Strategy whose allow or deny is an empty array ends the same way for
\* every filter: as under a strategy of no lists and no required field,
\* and never with an error of governance or of a required field.
C22_UnrestrictedAlike ==
  (CallEnded /\ Unrestricted) =>
    /\ result
         = convert(given.filter, [allow |-> {}, deny |-> {}, require |-> <<>>])
    /\ result.threw =>
         result.error.name
           \notin {"DeniedFieldError", "NonallowedFieldError",
                   "RequiredFieldError"}

\* A call with allow: [] and deny: [] that returns the fields of a tree.
C22_Witness ==
  /\ pc = "returned"
  /\ options = [allow |-> Array(<<>>), deny |-> Array(<<>>)]
  /\ result.value.fields = <<"/bar/baz", "/foo">>

\* The values of the statements of a filter that are no sub-filters, at
\* every level, in the order of a depth-first, left-to-right walk.
RECURSIVE Units(_), UnitsFrom(_, _)
UnitsFrom(f, i) ==
  IF i > Len(f.statements) THEN <<>>
  ELSE (IF IsFilter(f.statements[i].value) THEN Units(f.statements[i].value)
        ELSE <<f.statements[i].value>>)
       \o UnitsFrom(f, i + 1)

Units(f) == UnitsFrom(f, 1)

\* Whether a statement of that value, converted by itself under the lists
\* of the strategy, raises an error.
FailsAlone(sval) == _build(Run, Filter(<<Statement("", sval)>>)).threw

\* The fragments of a bool container in order: its must list, or the must
\* lists of its should entries one after the other.
RECURSIVE MustsFrom(_, _)
MustsFrom(should, g) ==
  IF g > Len(should) THEN <<>>
  ELSE should[g].bool.must \o MustsFrom(should, g + 1)

Musts(dsl) ==
  IF "should" \in DOMAIN dsl.bool THEN MustsFrom(dsl.bool.should, 1)
  ELSE dsl.bool.must

\* Whether the container dsl has a fragment for every statement of f, and
\* the container of every sub-filter for every statement of the sub-filter.
RECURSIVE Complete(_, _)
Complete(f, dsl) ==
  /\ Len(Musts(dsl)) = Len(f.statements)
  /\ \A i \in 1..Len(f.statements) :
       IsFilter(f.statements[i].value) =>
         Complete(f.statements[i].value, Musts(dsl)[i])

\* C23 for a filter of the statement values units.
OneOutcome(units) ==
  /\ (\E k \in 1..Len(units) : FailsAlone(units[k])) => pc = "thrown"
  /\ pc = "thrown" =>
       /\ DOMAIN result = {"threw", "error"}
       /\ result.threw
  /\ pc = "returned" =>
       /\ DOMAIN result = {"threw", "value"}
       /\ ~result.threw
       /\ DOMAIN result.value = {"fields", "value"}
       /\ DOMAIN result.value.value = {"filter"}
       /\ Complete(given.filter, Root)
       /\ {result.value.fields[n] : n \in 1..Len(result.value.fields)}
            = FieldsOf(Refs(given.filter))

\* C23: a call of convert that has ended has either returned { fields,
\* value }, complete for the whole tree (a fragment for every statement at
\* every level, the field of every target), or thrown an error and
\* returned nothing: no document and no fields come with an error. When a
\* statement at any depth raises an error by itself, the whole call
\* throws. Until the call ends nothing is returned.
C23_ReturnsAllOrThrows ==
  /\ CallEnded => OneOutcome(Units(given.filter))
  /\ pc \in {"constructed", "built", "validated"} => result = NoResult

\* A tree whose sub-filter holds a clause with an operator no script
\* knows, after a clause that converts: the call throws ConvertError.
C23_Witness ==
  /\ pc = "thrown"
  /\ Len(given.filter.statements) = 3
  /\ IsFilter(given.filter.statements[2].value)
  /\ ~FailsAlone(given.filter.statements[1].value)
  /\ FailsAlone(given.filter.statements[2].value.statements[2].value)
  /\ ~FailsAlone(given.filter.statements[3].value)
  /\ result.error.name = "ConvertError"

\* The Strategy instance of the session as it was constructed.
AsConstructed ==
  IF options = Unset THEN defaultStrategy ELSE Strategy(options).value

Alone ==
  Then(build([_filter |-> given.filter, _strategy |-> AsConstructed,
              _fields |-> {}, fields |-> <<>>, value |-> <<>>]),
    LAMBDA built, self1 :
      Then(validate(self1),
        LAMBDA valid, self2 :
          Value([fields |-> self2.fields, value |-> self2.value])))

\* C25: conversions are independent. Every call of a session, the first
\* and the later ones, with the same Strategy instance or the shared
\* default strategy, starts with nothing discovered and ends as its filter
\* and strategy alone determine; the fields returned are fields of targets
\* of this call's filter, and a required field that this filter does not
\* refer to fails the call, whatever earlier calls discovered.
C25_CallsIndependent ==
  /\ pc = "constructed" =>
       /\ builder._fields = {}
       /\ builder.fields = <<>>
       /\ builder.value = <<>>
  /\ CallEnded =>
       /\ result = Alone
       /\ pc = "returned" =>
            /\ \A n \in 1..Len(result.value.fields) :
                 result.value.fields[n] \in FieldsOf(Refs(given.filter))
            /\ Required \subseteq FieldsOf(Refs(given.filter))

\* A second call, on /bar/baz gt 0 with /foo required: it fails for /foo,
\* whichever filter the first call converted.
C25_Witness ==
  /\ pc = "thrown"
  /\ calls = 2
  /\ given.filter = Filter(<<Statement("", Clause(barbaz, "gt", Num(0)))>>)
  /\ strategy.require = <<"/foo">>
  /\ result.error.name = "RequiredFieldError"
  /\ result.error.data = "/foo"

(***************************************************************************)
(* C26 - C30: the order of the tests, the grouping and the routing of the  *)
(* tree compiler.                                                          *)
(***************************************************************************)
\* The place of the first of the targets refs that the strategy does not
\* permit or that has an illegal segment.
FirstFaulty(refs) ==
  CHOOSE k \in 1..Len(refs) :
    /\ ~Permitted(refs[k].field) \/ HasIllegalSegment(refs[k])
    /\ \A j \in 1..(k - 1) :
         Permitted(refs[j].field) /\ ~HasIllegalSegment(refs[j])

\* C26 for a filter that refers to the targets refs.
GovernanceBeforeLegality(refs) ==
  /\ (pc = "thrown" /\ result.error.name = "InvalidTargetError") =>
       \E k \in 1..Len(refs) :
         /\ refs[k].path = result.error.data
         /\ Permitted(refs[k].field)
         /\ HasIllegalSegment(refs[k])
  /\ (\E k \in 1..Len(refs) :
        ~Permitted(refs[k].field) /\ HasIllegalSegment(refs[k])) =>
       /\ pc = "thrown"
       /\ WellFormed(filter) =>
            result.error
              = IF Permitted(refs[FirstFaulty(refs)].field)
                  THEN InvalidTargetErrorOf(refs[FirstFaulty(refs)])
                  ELSE GovernanceErrorOf(refs[FirstFaulty(refs)].field)
  /\ Returned =>
       \A n \in 1..Len(result.value.fields) :
         /\ Permitted(result.value.fields[n])
         /\ \E k \in 1..Len(refs) :
              /\ refs[k].field = result.value.fields[n]
              /\ ~HasIllegalSegment(refs[k])

\* C26: the lists of the strategy are tested before the segments of the
\* path, and a field is registered after both tests have passed. An
\* InvalidTargetError is thrown only for a target the strategy permits; a
\* filter with a target that is denied (or not allowed) and has an illegal
\* segment fails, and when that target is the first to fail a test it
\* fails with DeniedFieldError (or NonallowedFieldError) of its field; the
\* fields returned are fields of targets that passed both tests.
C26_GovernanceBeforeLegality ==
  pc # "called" => GovernanceBeforeLegality(Refs(filter))

\* /x/a--b is denied and has an illegal segment: DeniedFieldError.
C26_Witness ==
  /\ pc = "thrown"
  /\ strategy.deny = {"/x/a--b"}
  /\ filter = Filter(<<Statement("", Clause(Target(<<Str("x"), Str("a--b")>>),
                                            "eq", Num(42)))>>)
  /\ result.error
       = [name |-> "DeniedFieldError",
          message |-> "Black listed field encountered: /x/a--b",
          data |-> "/x/a--b"]

\* Whether musts, the fragments of a container in order, are those of the
\* statements of f compiled one by one in order: the fragment of the
\* clause for a clause, and for a sub-filter a container whose fragments
\* are in turn those of the sub-filter's statements.
RECURSIVE OneByOne(_, _)
OneByOne(f, musts) ==
  /\ Len(musts) = Len(f.statements)
  /\ \A i \in 1..Len(f.statements) :
       IF IsFilter(f.statements[i].value)
         THEN /\ DOMAIN musts[i] = {"bool"}
              /\ OneByOne(f.statements[i].value, Musts(musts[i]))
         ELSE musts[i] = _clause(Run, f.statements[i].value).value

\* C27: grouping drops, repeats and moves no statement. At every level of
\* a converted tree, the must lists of the should entries one after the
\* other (or the single must list) are exactly the fragments of that
\* level's statements compiled one by one, in the order of the statements.
C27_GroupingKeepsStatements ==
  Returned => OneByOne(filter, Musts(Root))

\* Two groups at the top, the first of them a sub-filter that has two
\* groups of its own, of /foo eq 42 and of /bar/baz gt 0.
C27_Witness ==
  /\ Returned
  /\ Len(filter.statements) = 2
  /\ filter.statements[1].value
       = Filter(<<Statement("", Clause(foo, "eq", Num(42))),
                  Statement("or", Clause(barbaz, "gt", Num(0)))>>)
  /\ filter.statements[2].conjunctive = "or"
  /\ filter.statements[2].value = Clause(foo, "eq", Num(42))
  /\ Len(Root.bool.should) = 2
  /\ Len(Root.bool.should[1].bool.must) = 1
  /\ Len(Root.bool.should[1].bool.must[1].bool.should) = 2

\* Whether the container dsl of filter f, musts being its fragments in
\* order, and the containers of the sub-filters of f are well filled: a
\* should of two entries or more, each of one key must with a fragment or
\* more; a must that is empty for a filter of no statements only.
RECURSIVE WellFilled(_, _, _)
WellFilled(f, dsl, musts) ==
  /\ "should" \in DOMAIN dsl.bool =>
       /\ Len(dsl.bool.should) >= 2
       /\ \A g \in 1..Len(dsl.bool.should) :
            /\ DOMAIN dsl.bool.should[g] = {"bool"}
            /\ DOMAIN dsl.bool.should[g].bool = {"must"}
            /\ Len(dsl.bool.should[g].bool.must) >= 1
  /\ "must" \in DOMAIN dsl.bool =>
       (Len(dsl.bool.must) = 0 <=> Len(f.statements) = 0)
  /\ \A i \in 1..Len(f.statements) :
       IsFilter(f.statements[i].value) =>
         WellFilled(f.statements[i].value, musts[i], Musts(musts[i]))

\* C28: a should array emitted at any level has at least two entries, and
\* the must array of every entry is non-empty; a must array is empty only
\* as the whole { bool: { must: [] } } of a filter level of no statements.
C28_NoEmptyGroup ==
  Returned => WellFilled(filter, Root, Musts(Root))

\* A first statement joined by OR whose value is a filter of no
\* statements, then OR /foo eq 42: two entries, the first holding the
\* empty container of the sub-filter.
C28_Witness ==
  /\ Returned
  /\ filter = Filter(<<Statement("or", Filter(<<>>)),
                       Statement("or", Clause(foo, "eq", Num(42)))>>)
  /\ Len(Root.bool.should) = 2
  /\ Root.bool.should[1] = [bool |-> [must |-> <<[bool |-> [must |-> <<>>]]>>]]

\* No error.
NoError == [none |-> TRUE]

\* The error of the first of the statement values units, from place k on,
\* that raises an error when converted by itself under the lists of the
\* strategy; NoError when none does.
RECURSIVE FirstErrorFrom(_, _), ErrorOrNext(_, _, _)
ErrorOrNext(alone, units, k) ==
  IF alone.threw THEN alone.error ELSE FirstErrorFrom(units, k + 1)

FirstErrorFrom(units, k) ==
  IF k > Len(units) THEN NoError
  ELSE ErrorOrNext(_build(Run, Filter(<<Statement("", units[k])>>)),
                   units, k)

\* C29 for a filter whose first error of a statement is first.
FirstErrorWins(first) ==
  /\ first # NoError =>
       /\ pc = "thrown"
       /\ result.error = first
  /\ (pc = "thrown" /\ result.error.name = "RequiredFieldError") =>
       first = NoError

\* C29: when statements raise errors, convert throws the error of the
\* first of them in a depth-first, left-to-right walk, whatever later
\* statements would raise; and an error of the walk (ConvertError,
\* InvalidTargetError, DeniedFieldError, NonallowedFieldError) comes before
\* RequiredFieldError, which is thrown only when no statement raises one.
C29_FirstErrorWins ==
  pc # "called" => FirstErrorWins(FirstErrorFrom(Units(filter), 1))

\* /foo eq 42 with /foo denied, then a clause on /x/a--b: the error is
\* that of /foo.
C29_Witness ==
  /\ pc = "thrown"
  /\ strategy.deny = {"/foo"}
  /\ filter = Filter(<<Statement("", Clause(foo, "eq", Num(42))),
                       Statement("and",
                         Clause(Target(<<Str("x"), Str("a--b")>>), "eq",
                                Num(42)))>>)
  /\ result.error.name = "DeniedFieldError"
  /\ result.error.data = "/foo"

\* Whether a statement value is a clause that goes the script way (both
\* sides Targets, or neither) with an operator no script knows.
ScriptOfUnknownOperator(sval) ==
  /\ IsClause(sval)
  /\ ~OneTarget(sval)
  /\ sval.operator.type \notin Comparisons

\* C30 for a filter of the statement values units.
ScriptRouteFails(units) ==
  /\ (\E k \in 1..Len(units) : ScriptOfUnknownOperator(units[k])) =>
       pc = "thrown"
  /\ ( /\ Len(units) > 0
       /\ ScriptOfUnknownOperator(units[1])
       /\ IsTarget(units[1].subject) =>
            /\ Permitted(units[1].subject.field)
            /\ ~HasIllegalSegment(units[1].subject) ) =>
       result.error
         = [name |-> "ConvertError",
            message |-> "Invalid filter.  Unable to convert."]

\* C30: a clause whose sides are both Targets, or both no Targets, goes
\* the script way, so with any operator but eq, neq, gt, gte, lt, lte
\* (like, nlike, between, nbetween, in, nin, an unknown tag) it yields no
\* regexp, range or terms fragment: convert fails, and with ConvertError
\* when the clause is the first of the walk and its subject, where a
\* Target, is permitted and legal.
C30_ScriptRouteFails ==
  pc # "called" => ScriptRouteFails(Units(filter))

\* 42 in [2, 1, 2]: a literal subject with a list.
C30_Witness ==
  /\ pc = "thrown"
  /\ filter = Filter(<<Statement("", Clause(Num(42), "in",
                                            Array(<<Num(2), Num(1), Num(2)>>)))>>)
  /\ result.error.name = "ConvertError"

====
